---- MODULE Spec2Model ----
(***************************************************************************)
(* VL53L1XZoneMonitor: the zone state machine (ZoneObserver::evaluate),    *)
(* the monitor's zone management and its rate-limited tick                 *)
(* (VL53L1XZoneMonitor::performUpdate), modelled from                      *)
(* src/src/VL53L1XZoneMonitor.cpp and src/src/VL53L1XZoneMonitor.h.        *)
(*                                                                         *)
(* Zone indices are zero-based as in the code; zones is a TLA+ sequence,   *)
(* so the zone of index i is zones[i + 1].                                 *)
(***************************************************************************)
EXTENDS Integers, Sequences, FiniteSets, TLC

(***************************************************************************)
(* Bounds of the model.                                                    *)
(***************************************************************************)
\* most zones the vector holds at a time (std::vector is unbounded)
MaxZones == 2
\* largest certainty factor tried
MaxCert == 2
\* modulus of the streak counters: size_t (2^32 or 2^16) scaled down
CounterMod == 3
\* modulus of the millisecond clock: uint32_t (2^32) scaled down
ClockMod == 4
\* largest update_interval_ms tried
MaxInterval == 2
\* largest distance (uint16_t millimetres, scaled down)
MaxDistance == 2
\* longest sample sequence fed to one zone in SpecZone
MaxSamples == 5
\* longest observation window, in milliseconds, in SpecTiming
MaxWindow == 5
\* most getDistance() reads counted in one observation window
MaxProbes == 3

Distances == 0 .. MaxDistance
Certainties == 1 .. MaxCert
Intervals == 1 .. MaxInterval
Clock == 0 .. (ClockMod - 1)
\* zone_index arguments tried: every valid index and the first invalid one
Indices == 0 .. MaxZones
\* bounds given to addZone and, with the sentinel 0, to updateZone
ZoneBounds == 1 .. 2

\* "the ranging source has no fresh sample" / "no argument" / nullptr
NoData == -1
NoArg == -1
NULL == -1

\* what an operation returns: nothing, a bool (1 / 0), a ZoneObserver* (the
\* zone's index, or NULL), a distance, or a number of zones
Void == [kind |-> "void", val |-> 0]
Bool(b) == [kind |-> "bool", val |-> IF b THEN 1 ELSE 0]
ZonePtr(p) == [kind |-> "zone", val |-> p]
Distance(d) == [kind |-> "distance", val |-> d]
Count(n) == [kind |-> "count", val |-> n]

VARIABLES
    \* ---- VL53L1XZoneMonitor's fields
    zones,               \* std::vector<ZoneObserver>
    certainty_factor,
    update_interval_ms,
    last_update_time,
    \* ---- what the last operation did, as its caller observes it
    calls,               \* callbacks it invoked, in order
    ret,                 \* what it returned
    \* ---- per zone, its last two callback invocations (SpecCallbacks)
    cb_hist,
    \* ---- the environment: clock and ranging source (SpecTiming)
    now,                 \* millis()
    sensor,              \* the pending sample, or NoData
    win_elapsed,         \* milliseconds since the observation window began
    win_tick_reads,      \* sensor reads by performUpdate in the window
    win_probe_reads,     \* sensor reads by getDistance in the window
    \* ---- the history of one zone (SpecZone)
    samples,             \* every distance evaluated so far
    pres,                \* object_present after each of them
    trace,               \* every callback invocation: [at, cb, arg]
    \* ---- the sample in flight and the state of the source (SpecSensor)
    probed,              \* getDistance() has returned the latest measurement
    silent               \* "no", or how the zones were when the source fell
                         \* silent for good: "empty" or "occupied"

progVars == <<zones, certainty_factor, update_interval_ms, last_update_time>>
obsVars == <<calls, ret>>
envVars == <<now, sensor, win_elapsed, win_tick_reads, win_probe_reads>>
histVars == <<samples, pres, trace>>
sensVars == <<probed, silent>>
vars == <<progVars, obsVars, cb_hist, envVars, histVars, sensVars>>

(***************************************************************************)
(* ZoneObserver                                                            *)
(***************************************************************************)
\* the constructor; on_enter / on_exit: whether the pointer is non-null
ZoneObserver(min, max, onEnter, onExit) ==
    [min_distance |-> min, max_distance |-> max, object_present |-> FALSE,
     on_enter |-> onEnter, on_exit |-> onExit,
     in_zone_count |-> 0, out_zone_count |-> 0]

in_zone_Either(z, distance) ==
    distance >= z.min_distance \/ distance <= z.max_distance

in_zone_Open(z, distance) ==
    distance >= z.min_distance /\ distance < z.max_distance

\* bool in_zone = (distance >= min_distance && distance <= max_distance)
in_zone(z, distance) ==
    distance >= z.min_distance /\ distance <= z.max_distance

Incr_Narrow(count) == (count + 1) % 2

\* in_zone_count++ / out_zone_count++ on a size_t
Incr(count) == (count + 1) % CounterMod

EnterFires_NoGuard(z, count, certainty) ==
    count >= certainty

\* in_zone_count >= certainty && !object_present
EnterFires(z, count, certainty) ==
    count >= certainty /\ ~z.object_present

ExitFires_Late(z, count, certainty) ==
    count > certainty /\ z.object_present

ExitFires_NoGuard(z, count, certainty) ==
    count >= certainty

\* out_zone_count >= certainty && object_present
ExitFires(z, count, certainty) ==
    count >= certainty /\ z.object_present

\* if (on_enter) on_enter(distance);
EnterCalls(z, distance) ==
    IF z.on_enter THEN << [cb |-> "on_enter", arg |-> distance] >> ELSE << >>

\* if (on_exit) on_exit();
ExitCalls(z) ==
    IF z.on_exit THEN << [cb |-> "on_exit", arg |-> NoArg] >> ELSE << >>

evaluate_KeepsOtherStreak(z, distance, certainty) ==
    IF in_zone(z, distance)
    THEN LET c == Incr(z.in_zone_count)
             fire == EnterFires(z, c, certainty)
         IN  [zone |-> [z EXCEPT !.in_zone_count = c,
                                 !.object_present = IF fire THEN TRUE ELSE @],
              cbs |-> IF fire THEN EnterCalls(z, distance) ELSE << >>]
    ELSE LET c == Incr(z.out_zone_count)
             fire == ExitFires(z, c, certainty)
         IN  [zone |-> [z EXCEPT !.out_zone_count = c,
                                 !.object_present = IF fire THEN FALSE ELSE @],
              cbs |-> IF fire THEN ExitCalls(z) ELSE << >>]

\* ZoneObserver::evaluate: the zone afterwards and the callbacks invoked
evaluate(z, distance, certainty) ==
    IF in_zone(z, distance)
    THEN LET c == Incr(z.in_zone_count)
             fire == EnterFires(z, c, certainty)
         IN  [zone |-> [z EXCEPT !.in_zone_count = c,
                                 !.out_zone_count = 0,
                                 !.object_present = IF fire THEN TRUE ELSE @],
              cbs |-> IF fire THEN EnterCalls(z, distance) ELSE << >>]
    ELSE LET c == Incr(z.out_zone_count)
             fire == ExitFires(z, c, certainty)
         IN  [zone |-> [z EXCEPT !.out_zone_count = c,
                                 !.in_zone_count = 0,
                                 !.object_present = IF fire THEN FALSE ELSE @],
              cbs |-> IF fire THEN ExitCalls(z) ELSE << >>]

\* ZoneObserver::isObjectPresent
isObjectPresent(z) == z.object_present

(***************************************************************************)
(* VL53L1XZoneMonitor                                                      *)
(***************************************************************************)
\* zone_index < zones.size()
InRange(zs, zone_index) == zone_index >= 0 /\ zone_index < Len(zs)

\* the callbacks of one evaluate() call, tagged with the zone's index
Tagged(cbs, zone_index) ==
    [k \in 1 .. Len(cbs) |-> [zone |-> zone_index, cb |-> cbs[k].cb, arg |-> cbs[k].arg]]

RECURSIVE FanOutFrom(_, _, _, _)
\* the loop body of "for (auto &zone : zones) zone.evaluate(distance,
\* certainty_factor)", from position i on
FanOutFrom(acc, i, distance, certainty) ==
    IF i > Len(acc.zones)
    THEN acc
    ELSE LET r == evaluate(acc.zones[i], distance, certainty)
         IN  FanOutFrom([zones |-> [acc.zones EXCEPT ![i] = r.zone],
                         calls |-> acc.calls \o Tagged(r.cbs, i - 1)],
                        i + 1, distance, certainty)

RECURSIVE FanOutDownFrom(_, _, _, _)
FanOutDownFrom(acc, i, distance, certainty) ==
    IF i < 1
    THEN acc
    ELSE LET r == evaluate(acc.zones[i], distance, certainty)
         IN  FanOutDownFrom([zones |-> [acc.zones EXCEPT ![i] = r.zone],
                             calls |-> acc.calls \o Tagged(r.cbs, i - 1)],
                            i - 1, distance, certainty)

FanOut_Reversed(zs, distance, certainty) ==
    FanOutDownFrom([zones |-> zs, calls |-> << >>],
                   Len(zs), distance, certainty)

\* for (auto &zone : zones) zone.evaluate(distance, certainty_factor);
FanOut(zs, distance, certainty) ==
    FanOutFrom([zones |-> zs, calls |-> << >>], 1, distance, certainty)

Gate_NoWrap(T) == T - last_update_time >= update_interval_ms

Gate_Always(T) == TRUE

\* millis() - last_update_time >= update_interval_ms, in uint32_t arithmetic
Gate(T) == (T - last_update_time) % ClockMod >= update_interval_ms

\* the gate did not pass: nothing is touched
Skipped ==
    [zones |-> zones, last_update_time |-> last_update_time, calls |-> << >>]

NoDataTick_Evaluates(T2) ==
    LET f == FanOut(zones, 0, certainty_factor)
    IN  [zones |-> f.zones, last_update_time |-> T2, calls |-> f.calls]

\* the gate passed and sensor.dataReady() is false
NoDataTick(T2) ==
    [zones |-> zones, last_update_time |-> T2, calls |-> << >>]

\* VL53L1XZoneMonitor::performUpdate. T1 and T2 are what its two millis()
\* calls return; s is the ranging source's answer: the sample sensor.read()
\* returns, or NoData when sensor.dataReady() is false.
performUpdate(T1, T2, s) ==
    IF Gate(T1)
    THEN IF s # NoData
         THEN LET f == FanOut(zones, s, certainty_factor)
              IN  [zones |-> f.zones, last_update_time |-> T2, calls |-> f.calls]
         ELSE NoDataTick(T2)
    ELSE Skipped

\* how an operation leaves the monitor: its fields, the callbacks invoked
\* on the way, and the value returned
Outcome(zs, certainty, T, cbs, r) ==
    [zones |-> zs, certainty_factor |-> certainty,
     update_interval_ms |-> update_interval_ms, last_update_time |-> T,
     calls |-> cbs, ret |-> r]

\* the operation touched nothing, invoked nothing and returns r
Untouched(r) == Outcome(zones, certainty_factor, last_update_time, << >>, r)

\* VL53L1XZoneMonitor::addZone: zones.emplace_back(min, max, onEnter, onExit)
addZone(min, max, onEnter, onExit) ==
    Outcome(Append(zones, ZoneObserver(min, max, onEnter, onExit)),
            certainty_factor, last_update_time, << >>, Void)

\* VL53L1XZoneMonitor::getZoneCount
getZoneCount == Untouched(Count(Len(zones)))

deleteZone_NotifiesExit(zone_index) ==
    Outcome(IF InRange(zones, zone_index)
            THEN SubSeq(zones, 1, zone_index) \o SubSeq(zones, zone_index + 2, Len(zones))
            ELSE zones,
            certainty_factor, last_update_time,
            IF InRange(zones, zone_index) /\ zones[zone_index + 1].object_present
            THEN Tagged(ExitCalls(zones[zone_index + 1]), zone_index)
            ELSE << >>,
            Void)

deleteZone_PopBack(zone_index) ==
    Outcome(IF InRange(zones, zone_index)
            THEN SubSeq(zones, 1, Len(zones) - 1)
            ELSE zones,
            certainty_factor, last_update_time, << >>, Void)

\* VL53L1XZoneMonitor::deleteZone: zones.erase(zones.begin() + zone_index)
deleteZone(zone_index) ==
    Outcome(IF InRange(zones, zone_index)
            THEN SubSeq(zones, 1, zone_index) \o SubSeq(zones, zone_index + 2, Len(zones))
            ELSE zones,
            certainty_factor, last_update_time, << >>, Void)

updateZone_ClearsPresence(zone_index, min_distance, max_distance) ==
    Outcome(IF InRange(zones, zone_index)
            THEN [zones EXCEPT ![zone_index + 1] =
                     [@ EXCEPT !.min_distance = IF min_distance # 0 THEN min_distance ELSE @,
                               !.max_distance = IF max_distance # 0 THEN max_distance ELSE @,
                               !.object_present = FALSE]]
            ELSE zones,
            certainty_factor, last_update_time, << >>, Void)

updateZone_ResetsStreaks(zone_index, min_distance, max_distance) ==
    Outcome(IF InRange(zones, zone_index)
            THEN [zones EXCEPT ![zone_index + 1] =
                     [@ EXCEPT !.min_distance = IF min_distance # 0 THEN min_distance ELSE @,
                               !.max_distance = IF max_distance # 0 THEN max_distance ELSE @,
                               !.in_zone_count = 0,
                               !.out_zone_count = 0]]
            ELSE zones,
            certainty_factor, last_update_time, << >>, Void)

\* VL53L1XZoneMonitor::updateZone
updateZone(zone_index, min_distance, max_distance) ==
    Outcome(IF InRange(zones, zone_index)
            THEN [zones EXCEPT ![zone_index + 1] =
                     [@ EXCEPT !.min_distance = IF min_distance # 0 THEN min_distance ELSE @,
                               !.max_distance = IF max_distance # 0 THEN max_distance ELSE @]]
            ELSE zones,
            certainty_factor, last_update_time, << >>, Void)

getZone_Unchecked(zone_index) == Untouched(ZonePtr(zone_index))

\* VL53L1XZoneMonitor::getZone: &zones[zone_index], named by its index, or
\* nullptr
getZone(zone_index) ==
    Untouched(ZonePtr(IF InRange(zones, zone_index) THEN zone_index ELSE NULL))

setCertaintyFactor_ResetsStreaks(certainty) ==
    Outcome([i \in 1 .. Len(zones) |->
                [zones[i] EXCEPT !.in_zone_count = 0, !.out_zone_count = 0]],
            certainty, last_update_time, << >>, Void)

setCertaintyFactor_AppliesAtOnce(certainty) ==
    Outcome([i \in 1 .. Len(zones) |->
                IF zones[i].in_zone_count > 0
                   /\ EnterFires(zones[i], zones[i].in_zone_count, certainty)
                THEN [zones[i] EXCEPT !.object_present = TRUE]
                ELSE zones[i]],
            certainty, last_update_time, << >>, Void)

\* VL53L1XZoneMonitor::setCertaintyFactor
setCertaintyFactor(certainty) ==
    Outcome(zones, certainty, last_update_time, << >>, Void)

\* VL53L1XZoneMonitor::update
update(T1, T2, s) ==
    LET r == performUpdate(T1, T2, s)
    IN  Outcome(r.zones, certainty_factor, r.last_update_time, r.calls, Void)

isObjectInZone_Stale(zone_index, T1, T2, s) ==
    LET r == performUpdate(T1, T2, s)
    IN  Outcome(r.zones, certainty_factor, r.last_update_time, r.calls,
                Bool(IF InRange(zones, zone_index)
                     THEN isObjectPresent(zones[zone_index + 1])
                     ELSE FALSE))

\* VL53L1XZoneMonitor::isObjectInZone: performUpdate(), then the answer
isObjectInZone(zone_index, T1, T2, s) ==
    LET r == performUpdate(T1, T2, s)
    IN  Outcome(r.zones, certainty_factor, r.last_update_time, r.calls,
                Bool(IF InRange(r.zones, zone_index)
                     THEN isObjectPresent(r.zones[zone_index + 1])
                     ELSE FALSE))

getDistance_FeedsZones(s) ==
    IF s # NoData
    THEN LET f == FanOut(zones, s, certainty_factor)
         IN  Outcome(f.zones, certainty_factor, last_update_time, f.calls, Distance(s))
    ELSE Untouched(Distance(0))

\* VL53L1XZoneMonitor::getDistance: sensor.read(false) if sensor.dataReady(),
\* else 0
getDistance(s) == Untouched(Distance(IF s # NoData THEN s ELSE 0))

\* the constructor: VL53L1XZoneMonitor(wire, interval_ms, certainty)
Monitor(interval_ms, certainty) ==
    /\ zones = << >>
    /\ update_interval_ms = interval_ms
    /\ last_update_time = 0
    /\ certainty_factor = certainty
    /\ calls = << >>
    /\ ret = Void

\* the step of the monitor in which an operation with outcome r runs
Returns(r) ==
    /\ zones' = r.zones
    /\ certainty_factor' = r.certainty_factor
    /\ update_interval_ms' = r.update_interval_ms
    /\ last_update_time' = r.last_update_time
    /\ calls' = r.calls
    /\ ret' = r.ret

\* the public operations as steps; the list holds at most MaxZones zones
AddZone(min, max, onEnter, onExit) ==
    Len(zones) < MaxZones /\ Returns(addZone(min, max, onEnter, onExit))
UpdateZone(zone_index, min_distance, max_distance) ==
    Returns(updateZone(zone_index, min_distance, max_distance))
DeleteZone(zone_index) == Returns(deleteZone(zone_index))
GetZone(zone_index) == Returns(getZone(zone_index))
GetZoneCount == Returns(getZoneCount)
SetCertaintyFactor(certainty) == Returns(setCertaintyFactor(certainty))
Update(T1, T2, s) == Returns(update(T1, T2, s))
IsObjectInZone(zone_index, T1, T2, s) == Returns(isObjectInZone(zone_index, T1, T2, s))
GetDistance(s) == Returns(getDistance(s))

\* the environment and the histories at rest
Idle ==
    /\ now = 0
    /\ sensor = NoData
    /\ win_elapsed = 0
    /\ win_tick_reads = 0
    /\ win_probe_reads = 0
    /\ samples = << >>
    /\ pres = << >>
    /\ trace = << >>
    /\ probed = FALSE
    /\ silent = "no"

Readings == Distances \cup {NoData}
UpdateArgs == ZoneBounds \cup {0}

(***************************************************************************)
(* Spec: the monitor under any sequence of its public operations, every    *)
(* zone with both callbacks set. What millis() and the ranging source      *)
(* answer is up to the environment: a call comes in the millisecond of the *)
(* last poll or update_interval_ms after it, and finds any sample or none. *)
(***************************************************************************)
Init ==
    /\ \E certainty \in Certainties : Monitor(MaxInterval, certainty)
    /\ cb_hist = << >>
    /\ Idle

\* the clock readings tried: the gate closed, the gate open
TickTimes == {last_update_time, (last_update_time + update_interval_ms) % ClockMod}

Next ==
    \/ \E min \in ZoneBounds, max \in ZoneBounds :
          AddZone(min, max, TRUE, TRUE) /\ UNCHANGED <<cb_hist, envVars, histVars, sensVars>>
    \/ \E i \in Indices, a \in UpdateArgs, b \in UpdateArgs :
          UpdateZone(i, a, b) /\ UNCHANGED <<cb_hist, envVars, histVars, sensVars>>
    \/ \E i \in Indices : DeleteZone(i) /\ UNCHANGED <<cb_hist, envVars, histVars, sensVars>>
    \/ \E i \in Indices : GetZone(i) /\ UNCHANGED <<cb_hist, envVars, histVars, sensVars>>
    \/ GetZoneCount /\ UNCHANGED <<cb_hist, envVars, histVars, sensVars>>
    \/ \E n \in Certainties : SetCertaintyFactor(n) /\ UNCHANGED <<cb_hist, envVars, histVars, sensVars>>
    \/ \E T \in TickTimes, s \in Readings :
          Update(T, T, s) /\ UNCHANGED <<cb_hist, envVars, histVars, sensVars>>
    \/ \E i \in Indices, T \in TickTimes, s \in Readings :
          IsObjectInZone(i, T, T, s) /\ UNCHANGED <<cb_hist, envVars, histVars, sensVars>>
    \/ \E s \in Readings : GetDistance(s) /\ UNCHANGED <<cb_hist, envVars, histVars, sensVars>>

Spec == Init /\ [][Next]_vars

(***************************************************************************)
(* SpecCallbacks: the monitor again, with zones whose on_exit callback may *)
(* be left unset, and with each zone's last two callback invocations kept  *)
(* across operations. A zone keeps its history when a zone before it is    *)
(* deleted, as it keeps its state.                                         *)
(***************************************************************************)
\* the last two entries of a sequence
Last2(q) == IF Len(q) <= 2 THEN q ELSE SubSeq(q, Len(q) - 1, Len(q))

\* the names of the callbacks zone zone_index got among cbs, in order
NamesFor(cbs, zone_index) ==
    LET mine == SelectSeq(cbs, LAMBDA c : c.zone = zone_index)
    IN  [k \in 1 .. Len(mine) |-> mine[k].cb]

\* the histories once the callbacks cbs of one operation have run
Recorded(hist, cbs) ==
    [i \in 1 .. Len(hist) |-> Last2(hist[i] \o NamesFor(cbs, i - 1))]

\* the histories with that of zone zone_index taken out
Forgotten(hist, zone_index) ==
    IF zone_index < Len(hist)
    THEN [i \in 1 .. (Len(hist) - 1) |->
             IF i <= zone_index THEN hist[i] ELSE hist[i + 1]]
    ELSE hist

InitCallbacks ==
    /\ \E certainty \in Certainties : Monitor(MaxInterval, certainty)
    /\ cb_hist = << >>
    /\ Idle

NextCallbacks ==
    \/ \E max \in ZoneBounds, onExit \in BOOLEAN :
          /\ AddZone(1, max, TRUE, onExit)
          /\ cb_hist' = Append(cb_hist, << >>)
          /\ UNCHANGED <<envVars, histVars, sensVars>>
    \/ \E i \in Indices, b \in UpdateArgs :
          /\ UpdateZone(i, 0, b)
          /\ UNCHANGED <<cb_hist, envVars, histVars, sensVars>>
    \/ \E i \in Indices :
          /\ DeleteZone(i)
          /\ cb_hist' = Forgotten(cb_hist, i)
          /\ UNCHANGED <<envVars, histVars, sensVars>>
    \/ \E n \in Certainties :
          /\ SetCertaintyFactor(n)
          /\ UNCHANGED <<cb_hist, envVars, histVars, sensVars>>
    \/ \E T \in TickTimes, s \in Readings :
          /\ Update(T, T, s)
          /\ cb_hist' = Recorded(cb_hist, calls')
          /\ UNCHANGED <<envVars, histVars, sensVars>>
    \/ \E i \in Indices, T \in TickTimes, s \in Readings :
          /\ IsObjectInZone(i, T, T, s)
          /\ cb_hist' = Recorded(cb_hist, calls')
          /\ UNCHANGED <<envVars, histVars, sensVars>>

SpecCallbacks == InitCallbacks /\ [][NextCallbacks]_vars

(***************************************************************************)
(* SpecTiming: the monitor polled against a clock and a ranging source     *)
(* that keep their own state. millis() counts milliseconds modulo          *)
(* ClockMod; the source holds at most one pending sample, which a read     *)
(* takes; a new sample may become ready at any moment. An observation      *)
(* window may begin between any two operations; it counts the              *)
(* milliseconds elapsed and the sensor reads made since.                   *)
(***************************************************************************)
\* sensor.dataReady()
dataReady == sensor # NoData

\* whether performUpdate(), entered at clock reading T, reads the sensor
TickReads(T) == Gate(T) /\ dataReady

InitTiming ==
    /\ \E interval_ms \in Intervals, certainty \in Certainties :
          Monitor(interval_ms, certainty)
    /\ cb_hist = << >>
    /\ Idle

\* one millisecond passes
ClockAdvance ==
    /\ win_elapsed < MaxWindow
    /\ now' = (now + 1) % ClockMod
    /\ win_elapsed' = win_elapsed + 1
    /\ UNCHANGED <<progVars, obsVars, cb_hist, sensor, win_tick_reads,
                   win_probe_reads, histVars, sensVars>>

\* the ranging source completes a measurement
SensorMeasure(d) ==
    /\ sensor' = d
    /\ UNCHANGED <<progVars, obsVars, cb_hist, now, win_elapsed, win_tick_reads,
                   win_probe_reads, histVars, sensVars>>

\* an observation window begins
WindowStart ==
    /\ win_elapsed' = 0
    /\ win_tick_reads' = 0
    /\ win_probe_reads' = 0
    /\ UNCHANGED <<progVars, obsVars, cb_hist, now, sensor, histVars, sensVars>>

\* the environment of one performUpdate(): e milliseconds pass between its
\* two readings of millis(); a read takes the pending sample
Polled(e) ==
    /\ win_elapsed + e <= MaxWindow
    /\ now' = (now + e) % ClockMod
    /\ win_elapsed' = win_elapsed + e
    /\ sensor' = IF TickReads(now) THEN NoData ELSE sensor
    /\ win_tick_reads' = IF TickReads(now) THEN win_tick_reads + 1 ELSE win_tick_reads
    /\ UNCHANGED <<win_probe_reads, cb_hist, histVars, sensVars>>

\* update() at the current time
TimedUpdate(e) ==
    /\ Update(now, (now + e) % ClockMod, sensor)
    /\ Polled(e)

\* isObjectInZone() at the current time
TimedIsObjectInZone(zone_index, e) ==
    /\ IsObjectInZone(zone_index, now, (now + e) % ClockMod, sensor)
    /\ Polled(e)

\* getDistance() at the current time: it reads whenever a sample is ready
TimedGetDistance ==
    /\ dataReady => win_probe_reads < MaxProbes
    /\ GetDistance(sensor)
    /\ sensor' = NoData
    /\ win_probe_reads' = IF dataReady THEN win_probe_reads + 1 ELSE win_probe_reads
    /\ UNCHANGED <<now, win_elapsed, win_tick_reads, cb_hist, histVars, sensVars>>

NextTiming ==
    \/ ClockAdvance
    \/ \E d \in Distances : SensorMeasure(d)
    \/ WindowStart
    \/ \E e \in 0 .. 1 : TimedUpdate(e)
    \/ \E i \in Indices, e \in 0 .. 1 : TimedIsObjectInZone(i, e)
    \/ TimedGetDistance

SpecTiming == InitTiming /\ [][NextTiming]_vars

(***************************************************************************)
(* SpecSensor: the monitor with zones and a ranging source that holds at   *)
(* most one pending sample. The source may complete a measurement at any   *)
(* moment, and it may fall silent for good: from then on it reports no     *)
(* fresh sample. What the last operation before that did is forgotten at   *)
(* that point, and how the zones were is remembered.                       *)
(***************************************************************************)
\* what the source holds once sensor.read(false) has returned the sample s
sensorRead(s) == NoData

\* the ranging source completes a measurement
SensorCompletes(d) ==
    /\ silent = "no"
    /\ sensor' = d
    /\ probed' = FALSE
    /\ UNCHANGED <<progVars, obsVars, silent>>

\* the ranging source falls silent for good
SensorFallsSilent ==
    /\ silent = "no"
    /\ silent' = IF \E i \in 1 .. Len(zones) : zones[i].object_present
                 THEN "occupied"
                 ELSE "empty"
    /\ sensor' = NoData
    /\ calls' = << >>
    /\ ret' = Void
    /\ UNCHANGED <<progVars, probed>>

\* update() against the source
SensedUpdate(T) ==
    /\ Update(T, T, sensor)
    /\ sensor' = IF TickReads(T) THEN sensorRead(sensor) ELSE sensor
    /\ UNCHANGED <<probed, silent>>

\* isObjectInZone() against the source
SensedIsObjectInZone(zone_index, T) ==
    /\ IsObjectInZone(zone_index, T, T, sensor)
    /\ sensor' = IF TickReads(T) THEN sensorRead(sensor) ELSE sensor
    /\ UNCHANGED <<probed, silent>>

\* getDistance() against the source
SensedGetDistance ==
    /\ GetDistance(sensor)
    /\ sensor' = IF dataReady THEN sensorRead(sensor) ELSE sensor
    /\ probed' = (probed \/ dataReady)
    /\ UNCHANGED silent

\* what SpecSensor leaves alone throughout
SensorRest ==
    UNCHANGED <<cb_hist, now, win_elapsed, win_tick_reads, win_probe_reads, histVars>>

NextSensor ==
    \/ \E d \in Distances : SensorCompletes(d) /\ SensorRest
    \/ SensorFallsSilent /\ SensorRest
    \/ \E max \in ZoneBounds :
          AddZone(1, max, TRUE, TRUE) /\ UNCHANGED <<sensor, sensVars>> /\ SensorRest
    \/ \E i \in Indices, b \in UpdateArgs :
          UpdateZone(i, 0, b) /\ UNCHANGED <<sensor, sensVars>> /\ SensorRest
    \/ \E i \in Indices : DeleteZone(i) /\ UNCHANGED <<sensor, sensVars>> /\ SensorRest
    \/ \E n \in Certainties :
          SetCertaintyFactor(n) /\ UNCHANGED <<sensor, sensVars>> /\ SensorRest
    \/ \E T \in TickTimes : SensedUpdate(T) /\ SensorRest
    \/ \E i \in Indices, T \in TickTimes : SensedIsObjectInZone(i, T) /\ SensorRest
    \/ SensedGetDistance /\ SensorRest

SpecSensor == Init /\ [][NextSensor]_vars

(***************************************************************************)
(* SpecZone: one ZoneObserver with fixed bounds, fed a sample sequence     *)
(* with a fixed certainty.                                                 *)
(***************************************************************************)
InitZone ==
    /\ \E min \in ZoneBounds, max \in ZoneBounds, onEnter \in BOOLEAN, onExit \in BOOLEAN :
          zones = << ZoneObserver(min, max, onEnter, onExit) >>
    /\ certainty_factor \in Certainties
    /\ update_interval_ms = MaxInterval
    /\ last_update_time = 0
    /\ calls = << >>
    /\ ret = Void
    /\ cb_hist = << >>
    /\ Idle

\* zone.evaluate(distance, certainty) on the one zone, recorded
EvaluateStep(distance) ==
    /\ Len(samples) < MaxSamples
    /\ LET r == evaluate(zones[1], distance, certainty_factor)
           at == Len(samples) + 1
       IN  /\ zones' = << r.zone >>
           /\ samples' = Append(samples, distance)
           /\ pres' = Append(pres, isObjectPresent(r.zone))
           /\ trace' = trace \o [k \in 1 .. Len(r.cbs) |->
                                   [at |-> at, cb |-> r.cbs[k].cb, arg |-> r.cbs[k].arg]]
    /\ UNCHANGED <<certainty_factor, update_interval_ms, last_update_time>>
    /\ UNCHANGED <<obsVars, cb_hist, envVars, sensVars>>

NextZone == \E distance \in Distances : EvaluateStep(distance)

SpecZone == InitZone /\ [][NextZone]_vars

(***************************************************************************)
(* The history of SpecZone read back: runs of samples on one side of the   *)
(* window, computed from the samples alone.                                *)
(***************************************************************************)
\* min_distance <= d <= max_distance, for the bounds the zone was built with
InWindow(d) == zones[1].min_distance <= d /\ d <= zones[1].max_distance

\* object_present before sample k was evaluated
Before(k) == IF k = 1 THEN FALSE ELSE pres[k - 1]

\* the callbacks invoked while sample k was evaluated
InvokedAt(k) == SelectSeq(trace, LAMBDA e : e.at = k)

RECURSIVE RunIn(_)
\* how many consecutive in-range samples end with sample k
RunIn(k) == IF k = 0 \/ ~InWindow(samples[k]) THEN 0 ELSE 1 + RunIn(k - 1)

RECURSIVE RunOut(_)
\* how many consecutive out-of-range samples end with sample k
RunOut(k) == IF k = 0 \/ InWindow(samples[k]) THEN 0 ELSE 1 + RunOut(k - 1)

\* sample k is the last one of a maximal run of its side
EndsRun(k) == k = Len(samples) \/ InWindow(samples[k + 1]) # InWindow(samples[k])

\* the maximal in-range runs of length >= N that begin while the zone is Empty,
\* each named by its last sample
EnterRuns ==
    {k \in 1 .. Len(samples) :
        /\ EndsRun(k)
        /\ RunIn(k) >= certainty_factor
        /\ ~Before(k - RunIn(k) + 1)}

\* the maximal out-of-range runs of length >= N that begin while it is Occupied
ExitRuns ==
    {k \in 1 .. Len(samples) :
        /\ EndsRun(k)
        /\ RunOut(k) >= certainty_factor
        /\ Before(k - RunOut(k) + 1)}

Invocations(cb) == {k \in 1 .. Len(trace) : trace[k].cb = cb}

\* C1: with bounds and certainty N fixed, a zone becomes Occupied exactly on
\* the Nth consecutive sample inside [min_distance, max_distance] (bounds
\* included) and then invokes on_enter, when set, with that sample; it becomes
\* Empty exactly on the Nth consecutive sample outside and then invokes
\* on_exit, when set; every other sample leaves object_present as it was and
\* invokes nothing.
C1_TransitionOnNthSample ==
    \A k \in 1 .. Len(samples) :
        LET d == samples[k]
            N == certainty_factor
        IN  IF ~Before(k) /\ RunIn(k) = N
            THEN /\ pres[k]
                 /\ InvokedAt(k) = IF zones[1].on_enter
                                   THEN << [at |-> k, cb |-> "on_enter", arg |-> d] >>
                                   ELSE << >>
            ELSE IF Before(k) /\ RunOut(k) = N
            THEN /\ ~pres[k]
                 /\ InvokedAt(k) = IF zones[1].on_exit
                                   THEN << [at |-> k, cb |-> "on_exit", arg |-> NoArg] >>
                                   ELSE << >>
            ELSE /\ pres[k] = Before(k)
                 /\ InvokedAt(k) = << >>

\* a zone [min, max] with min < max, both callbacks set and certainty 2 was
\* entered by the second of two in-range samples, that one equal to
\* max_distance, and left again by the second of two samples outside
C1_Witness ==
    /\ certainty_factor = 2
    /\ zones[1].min_distance < zones[1].max_distance
    /\ Len(samples) = 5
    /\ trace = << [at |-> 3, cb |-> "on_enter", arg |-> zones[1].max_distance],
                  [at |-> 5, cb |-> "on_exit", arg |-> NoArg] >>

\* C3: for any sample sequence and fixed certainty N, on_enter (when set) is
\* invoked once per maximal run of in-range samples of length >= N that begins
\* while the zone is Empty, and on_exit (when set) once per maximal run of
\* out-of-range samples of length >= N that begins while it is Occupied.
C3_Hysteresis ==
    /\ zones[1].on_enter => Cardinality(Invocations("on_enter")) = Cardinality(EnterRuns)
    /\ zones[1].on_exit => Cardinality(Invocations("on_exit")) = Cardinality(ExitRuns)

\* certainty 2, both callbacks set: a flicker (in, out, in) fired nothing, and
\* the two in-range samples after it entered the zone
C3_Witness ==
    /\ certainty_factor = 2
    /\ zones[1].on_enter /\ zones[1].on_exit
    /\ Len(samples) = 5
    /\ InWindow(samples[1]) /\ ~InWindow(samples[2]) /\ InWindow(samples[3])
    /\ InWindow(samples[4]) /\ ~InWindow(samples[5])
    /\ Cardinality(Invocations("on_enter")) = 1
    /\ Cardinality(Invocations("on_exit")) = 0
    /\ pres[5]

RECURSIVE Unbounded(_)
\* the zone after the first k samples if its streak counters never wrapped:
\* presence p, streaks i and o, every presence so far ps, every callback
\* invocation so far tr
Unbounded(k) ==
    IF k = 0
    THEN [p |-> FALSE, i |-> 0, o |-> 0, ps |-> << >>, tr |-> << >>]
    ELSE LET q == Unbounded(k - 1)
             d == samples[k]
             N == certainty_factor
         IN  IF InWindow(d)
             THEN LET fire == q.i + 1 >= N /\ ~q.p
                      p == q.p \/ fire
                  IN  [p |-> p, i |-> q.i + 1, o |-> 0,
                       ps |-> Append(q.ps, p),
                       tr |-> IF fire /\ zones[1].on_enter
                              THEN Append(q.tr, [at |-> k, cb |-> "on_enter", arg |-> d])
                              ELSE q.tr]
             ELSE LET fire == q.o + 1 >= N /\ q.p
                      p == q.p /\ ~fire
                  IN  [p |-> p, i |-> 0, o |-> q.o + 1,
                       ps |-> Append(q.ps, p),
                       tr |-> IF fire /\ zones[1].on_exit
                              THEN Append(q.tr, [at |-> k, cb |-> "on_exit", arg |-> NoArg])
                              ELSE q.tr]

\* C18: with streak counters that wrap modulo 2^w (here modulo CounterMod)
\* and a fixed certainty 1 <= N < 2^w, wrap-around of a streak counter is
\* harmless: for every sequence of samples the sequence of on_enter/on_exit
\* invocations and of object_present values is the one produced with
\* unbounded counters.
C18_WrapIsHarmless ==
    LET u == Unbounded(Len(samples))
    IN  /\ u.ps = pres
        /\ u.tr = trace
        /\ u.p = zones[1].object_present

\* MaxSamples samples in a row lay in the window: the in-range streak
\* counter has wrapped and stands below the number of samples, the zone is
\* Occupied, and on_enter was invoked once, on the second sample
C18_Witness ==
    /\ certainty_factor = 2
    /\ zones[1].on_enter
    /\ Len(samples) = MaxSamples
    /\ \A k \in 1 .. Len(samples) : InWindow(samples[k])
    /\ zones[1].in_zone_count = MaxSamples % CounterMod
    /\ zones[1].object_present
    /\ Cardinality(Invocations("on_enter")) = 1
    /\ \E c \in Invocations("on_enter") : trace[c].at = 2

\* C19: when a zone's bounds are not changed by updateZone and the
\* certainty N >= 1 is not changed by setCertaintyFactor, every reachable
\* state satisfies: object_present = false implies in_streak < N, and
\* object_present = true implies out_streak < N.
C19_NoPendingTransition ==
    /\ ~zones[1].object_present => zones[1].in_zone_count < certainty_factor
    /\ zones[1].object_present => zones[1].out_zone_count < certainty_factor

\* at certainty 2 a zone was entered and has since seen one sample outside
\* its window: it is Occupied, one sample short of leaving
C19_Witness ==
    /\ certainty_factor = 2
    /\ zones[1].object_present
    /\ zones[1].out_zone_count = 1
    /\ Len(samples) = 3
    /\ ~pres[1] /\ pres[2] /\ pres[3]

(***************************************************************************)
(* Properties of the callback order of one zone, on SpecCallbacks.         *)
(***************************************************************************)
\* zone i (counted from 1) got on_enter twice in a row, no on_exit between
EnteredTwice(i) == cb_hist[i] = << "on_enter", "on_enter" >>

\* C2, as stated: for every zone and every sequence of monitor operations,
\* two on_enter invocations on the zone never occur without an on_exit
\* invocation on that zone between them. A zone whose on_exit is not set
\* refutes it: it leaves and re-enters without any on_exit invocation.
C2_NoRefire == \A i \in 1 .. Len(zones) : ~EnteredTwice(i)

\* C2, amended: for every zone whose on_exit callback is set, and every
\* sequence of monitor operations, two on_enter invocations on the zone never
\* occur without an on_exit invocation on that zone between them.
C2_NoRefireWithExit ==
    \A i \in 1 .. Len(zones) : zones[i].on_exit => ~EnteredTwice(i)

\* a zone with on_exit set has been entered, left, and entered again, while
\* the zone before it was deleted in between or not
C2_Witness ==
    \E i \in 1 .. Len(zones) :
        /\ zones[i].on_exit
        /\ cb_hist[i] = << "on_exit", "on_enter" >>
        /\ zones[i].object_present

(***************************************************************************)
(* Properties of the monitor's operations, on Spec.                        *)
(***************************************************************************)
\* the clock readings at which the gate of performUpdate() is open
OpenTimes ==
    {T \in Clock : (T - last_update_time) % ClockMod >= update_interval_ms}

\* the second millis() reading, given the first
After(T) == {T, (T + 1) % ClockMod}

\* callbacks in strictly increasing order of zone index
IndexOrder(cbs) ==
    \A k \in 1 .. Len(cbs), l \in 1 .. Len(cbs) : k < l => cbs[k].zone < cbs[l].zone

\* the callbacks among cbs that belong to zone zone_index
Of(cbs, zone_index) == SelectSeq(cbs, LAMBDA c : c.zone = zone_index)

\* C4: in one tick of performUpdate that reads a sample, every zone in the
\* list is evaluated exactly once with that sample and the current
\* certainty_factor, in index order: each zone ends as one evaluate() of it
\* leaves it, its callbacks are those of that one evaluate(), and the
\* callbacks of the tick are ordered by zone index, so that overlapping
\* zones which both contain the sample both fire on_enter, lower index first.
C4_FanOutInOrder ==
    /\ IndexOrder(calls)
    /\ \A T1 \in OpenTimes, s \in Distances : \A T2 \in After(T1) :
          LET r == performUpdate(T1, T2, s)
          IN  /\ Len(r.zones) = Len(zones)
              /\ IndexOrder(r.calls)
              /\ \A k \in 1 .. Len(r.calls) : InRange(zones, r.calls[k].zone)
              /\ \A i \in 1 .. Len(zones) :
                    LET e == evaluate(zones[i], s, certainty_factor)
                    IN  /\ r.zones[i] = e.zone
                        /\ Of(r.calls, i - 1) = Tagged(e.cbs, i - 1)

\* two overlapping zones were both entered by the sample 2 of one tick, and
\* the callbacks came lower index first
C4_Witness ==
    /\ Len(zones) = 2
    /\ zones[1].min_distance = 1 /\ zones[1].max_distance = 2
    /\ zones[2].min_distance = 2 /\ zones[2].max_distance = 2
    /\ calls = << [zone |-> 0, cb |-> "on_enter", arg |-> 2],
                  [zone |-> 1, cb |-> "on_enter", arg |-> 2] >>

\* object_present and the two streak counters of every zone
Dynamics(zs) ==
    [i \in 1 .. Len(zs) |->
        << zs[i].object_present, zs[i].in_zone_count, zs[i].out_zone_count >>]

\* C5: a call of update() or isObjectInZone() that is skipped, because less
\* than update_interval_ms has elapsed since last_update_time or because the
\* ranging source reports no fresh sample, invokes no callback and leaves
\* object_present and both streak counters of every zone unchanged.
C5_SkippedTickIsInert ==
    \A T1 \in Clock, s \in Readings : \A T2 \in After(T1) :
        (T1 \notin OpenTimes \/ s = NoData) =>
            LET r == performUpdate(T1, T2, s)
            IN  /\ r.calls = << >>
                /\ Dynamics(r.zones) = Dynamics(zones)

\* polling has begun, one zone is Occupied and one Empty, each in the middle
\* of a streak towards the other state, and a call made now, in the
\* millisecond of the last poll, is skipped
C5_Witness ==
    /\ Len(zones) = 2
    /\ certainty_factor = 2
    /\ last_update_time # 0
    /\ last_update_time \notin OpenTimes
    /\ zones[1].object_present /\ zones[1].out_zone_count = 1
    /\ ~zones[2].object_present /\ zones[2].in_zone_count = 1
    /\ zones[1].min_distance = 1 /\ zones[1].max_distance = 1
    /\ zones[2].min_distance = 2 /\ zones[2].max_distance = 2
    /\ performUpdate(last_update_time, last_update_time, 2) = Skipped

\* C7: after deleteZone(i) with i < getZoneCount(), the zone previously at
\* every index j > i is at index j - 1 with its bounds, object_present,
\* streak counters and callbacks unchanged, the zones at indices j < i are
\* unchanged, and getZoneCount() has decreased by exactly one.
C7_DeleteShifts ==
    \A i \in Indices :
        InRange(zones, i) =>
            LET r == deleteZone(i)
            IN  /\ Len(r.zones) = Len(zones) - 1
                /\ \A j \in 0 .. (Len(zones) - 1) :
                      /\ j > i => r.zones[j] = zones[j + 1]
                      /\ j < i => r.zones[j + 1] = zones[j + 1]

\* deleteZone(0) moves a second zone, which differs from the first in its
\* bounds, its presence and its streak, to index 0
C7_Witness ==
    /\ Len(zones) = 2
    /\ zones[1].max_distance # zones[2].max_distance
    /\ ~zones[1].object_present
    /\ zones[2].object_present /\ zones[2].in_zone_count = 2
    /\ deleteZone(0).zones = << zones[2] >>

\* C8: updateZone(i, a, b) with i in range sets min_distance of zone i to a
\* when a # 0 and leaves it when a = 0, sets max_distance to b when b # 0
\* and leaves it when b = 0, and changes nothing else: presence, streaks and
\* callbacks of zone i, every other zone, the zone count and order,
\* certainty_factor and last_update_time stay; updateZone(i, 0, 0) is a no-op.
C8_UpdateZoneFrame ==
    \A i \in Indices, a \in UpdateArgs, b \in UpdateArgs :
        InRange(zones, i) =>
            LET r == updateZone(i, a, b)
                old == zones[i + 1]
                new == r.zones[i + 1]
            IN  /\ Len(r.zones) = Len(zones)
                /\ \A j \in 1 .. Len(zones) : j # i + 1 => r.zones[j] = zones[j]
                /\ new.min_distance = IF a # 0 THEN a ELSE old.min_distance
                /\ new.max_distance = IF b # 0 THEN b ELSE old.max_distance
                /\ new.object_present = old.object_present
                /\ new.in_zone_count = old.in_zone_count
                /\ new.out_zone_count = old.out_zone_count
                /\ new.on_enter = old.on_enter
                /\ new.on_exit = old.on_exit
                /\ r.certainty_factor = certainty_factor
                /\ r.last_update_time = last_update_time
                /\ r.calls = << >>
                /\ (a = 0 /\ b = 0) => r = Untouched(Void)

\* a zone is Occupied with an in-range streak of two and the bounds [2, 1],
\* which contain no distance: it was entered under other bounds, and
\* updateZone() has since replaced a bound and kept presence and streak
C8_Witness ==
    /\ Len(zones) = 1
    /\ zones[1].min_distance = 2 /\ zones[1].max_distance = 1
    /\ zones[1].object_present /\ zones[1].in_zone_count = 2
    /\ calls = << >>

\* C9: for every index i >= getZoneCount(), updateZone(i, a, b) and
\* deleteZone(i) leave the whole monitor state (zone list, every zone's
\* bounds, presence and counters, certainty_factor, last_update_time)
\* unchanged and invoke no callback, getZone(i) returns the absent
\* indicator, and isObjectInZone(i) returns false.
C9_OutOfRangeIndex ==
    \A i \in Indices :
        ~InRange(zones, i) =>
            /\ \A a \in UpdateArgs, b \in UpdateArgs :
                  updateZone(i, a, b) = Untouched(Void)
            /\ deleteZone(i) = Untouched(Void)
            /\ getZone(i).ret = ZonePtr(NULL)
            /\ \A T1 \in Clock, s \in Readings : \A T2 \in After(T1) :
                  isObjectInZone(i, T1, T2, s).ret = Bool(FALSE)

\* isObjectInZone() has answered false in the very call whose tick entered
\* every zone of the list: the index it was asked about is out of range
C9_Witness ==
    /\ Len(zones) = 1
    /\ zones[1].object_present
    /\ calls = << [zone |-> 0, cb |-> "on_enter", arg |-> 1] >>
    /\ ret = Bool(FALSE)

\* C10: isObjectInZone(i) runs one performUpdate tick before it answers,
\* for every i including an out-of-range one: the monitor ends as update()
\* at the same moment would leave it, with the callbacks update() would
\* invoke, and the value returned for an in-range i is object_present of
\* zone i after that tick, not the value before the call. So an answer of
\* true is never given with every zone Empty after the call.
C10_QueryTicksFirst ==
    /\ ret = Bool(TRUE) => \E i \in 1 .. Len(zones) : zones[i].object_present
    /\ \A i \in Indices, T1 \in Clock, s \in Readings : \A T2 \in After(T1) :
          LET r == isObjectInZone(i, T1, T2, s)
              u == update(T1, T2, s)
          IN  /\ r.zones = u.zones
              /\ r.last_update_time = u.last_update_time
              /\ r.calls = u.calls
              /\ InRange(zones, i) =>
                    r.ret = Bool(u.zones[i + 1].object_present)

\* isObjectInZone(1) has answered true in the very call whose tick entered
\* zone 1, which was Empty when the call began
C10_Witness ==
    /\ Len(zones) = 2
    /\ ~zones[1].object_present
    /\ zones[2].object_present
    /\ calls = << [zone |-> 1, cb |-> "on_enter", arg |-> 2] >>
    /\ ret = Bool(TRUE)

(***************************************************************************)
(* The rate of sensor reads, on SpecTiming.                                *)
(***************************************************************************)
\* ceil(a / b)
CeilDiv(a, b) == (a + b - 1) \div b

\* the bound of the rate limit for the window so far
ReadBound == CeilDiv(win_elapsed, update_interval_ms) + 1

\* C6, as stated: over any wall-clock interval of length dt, for any
\* interleaving of calls to the monitor's public operations, the number of
\* sensor reads performed by the monitor is at most
\* ceil(dt / update_interval_ms) + 1. getDistance() refutes it: it reads
\* whenever a sample is ready, whatever the time.
C6_AllReadsBounded == win_tick_reads + win_probe_reads <= ReadBound

\* C6, amended: over any wall-clock interval of length dt, for any
\* interleaving of calls to the monitor's public operations, the number of
\* sensor reads performed by performUpdate(), that is through update() and
\* isObjectInZone(), is at most ceil(dt / update_interval_ms) + 1.
C6_TickReadsBounded == win_tick_reads <= ReadBound

\* a window of four milliseconds at an interval of two, with three reads by
\* performUpdate(): the bound is attained
C6_Witness ==
    /\ update_interval_ms = 2
    /\ win_elapsed = 4
    /\ win_tick_reads = 3
    /\ win_tick_reads = ReadBound

\* C13: in every reachable state between public calls, from zone creation
\* on and after any sequence of ticks, updateZone, setCertaintyFactor,
\* addZone and deleteZone, every zone has in_streak = 0 or out_streak = 0.
C13_StreakExclusivity ==
    \A i \in 1 .. Len(zones) :
        zones[i].in_zone_count = 0 \/ zones[i].out_zone_count = 0

\* two zones after two ticks: one has seen two samples inside its window,
\* the other the same two samples outside its own
C13_Witness ==
    /\ Len(zones) = 2
    /\ zones[1].in_zone_count = 2 /\ zones[1].out_zone_count = 0
    /\ zones[2].out_zone_count = 2 /\ zones[2].in_zone_count = 0
    /\ zones[1].object_present /\ ~zones[2].object_present

\* the longest run of equal samples fed to a zone in the properties below
RunLen == MaxCert + 2

\* d lies in the window of z
Inside(z, d) == z.min_distance <= d /\ d <= z.max_distance

RECURSIVE AfterSamples(_, _, _, _)
\* the zone z after j evaluations of the sample d with certainty N
AfterSamples(z, d, j, N) ==
    IF j = 0 THEN z ELSE evaluate(AfterSamples(z, d, j - 1, N), d, N).zone

\* the callbacks invoked by the jth of these evaluations
CallsAt(z, d, j, N) == evaluate(AfterSamples(z, d, j - 1, N), d, N).cbs

\* C14: updateZone does not reset a zone's streak counters or
\* object_present, and for an Occupied zone whose window is moved so that
\* the samples that follow fall outside it, on_exit fires exactly once, on
\* the sample at which the carried-over out_streak reaches the certainty N:
\* with out_streak = k carried over, on sample number max(1, N - k), which
\* for N = 1 is the first sample evaluated after the updateZone.
C14_UpdateMidRun ==
    \A i \in Indices, a \in UpdateArgs, b \in UpdateArgs :
        InRange(zones, i) =>
            LET old == zones[i + 1]
                z == updateZone(i, a, b).zones[i + 1]
                N == certainty_factor
                k == old.out_zone_count
                first == IF N - k > 1 THEN N - k ELSE 1
            IN  /\ z.object_present = old.object_present
                /\ z.in_zone_count = old.in_zone_count
                /\ z.out_zone_count = old.out_zone_count
                /\ old.object_present =>
                      \A d \in Distances :
                          ~Inside(z, d) =>
                              \A j \in 1 .. RunLen :
                                  /\ AfterSamples(z, d, j, N).object_present <=> j < first
                                  /\ CallsAt(z, d, j, N) =
                                        IF j = first
                                        THEN << [cb |-> "on_exit", arg |-> NoArg] >>
                                        ELSE << >>

\* a zone with the window [2, 1], which nothing enters, has just left the
\* Occupied state on its first sample at certainty 1: it was entered under
\* other bounds, updateZone() moved the window while it was Occupied, and
\* the tick after fired on_exit
C14_Witness ==
    /\ Len(zones) = 1
    /\ certainty_factor = 1
    /\ zones[1].min_distance = 2 /\ zones[1].max_distance = 1
    /\ ~zones[1].object_present /\ zones[1].out_zone_count = 1
    /\ calls = << [zone |-> 0, cb |-> "on_exit", arg |-> NoArg] >>

\* C15: setCertaintyFactor(N') replaces the monitor-wide threshold used by
\* every later evaluation and resets no per-zone streak: an Empty zone with
\* in_streak = s fires on_enter on the very next in-range sample exactly
\* when s + 1 >= N', and an Occupied zone with out_streak = s fires on_exit
\* on the very next out-of-range sample exactly when s + 1 >= N'.
C15_NewCertaintyKeepsStreaks ==
    \A n \in Certainties :
        LET m == setCertaintyFactor(n)
        IN  /\ m.certainty_factor = n
            /\ m.zones = zones
            /\ m.calls = << >>
            /\ \A i \in 1 .. Len(zones), d \in Distances :
                  LET z == m.zones[i]
                      e == evaluate(z, d, m.certainty_factor)
                  IN  /\ (~z.object_present /\ Inside(z, d)) =>
                            /\ e.zone.object_present <=> z.in_zone_count + 1 >= n
                            /\ e.cbs = IF z.in_zone_count + 1 >= n
                                       THEN << [cb |-> "on_enter", arg |-> d] >>
                                       ELSE << >>
                      /\ (z.object_present /\ ~Inside(z, d)) =>
                            /\ ~e.zone.object_present <=> z.out_zone_count + 1 >= n
                            /\ e.cbs = IF z.out_zone_count + 1 >= n
                                       THEN << [cb |-> "on_exit", arg |-> NoArg] >>
                                       ELSE << >>

\* an Empty zone holds an in-range streak of one under certainty 1: the
\* streak was begun under certainty 2, setCertaintyFactor(1) has kept it,
\* and the next in-range sample will enter the zone
C15_Witness ==
    /\ Len(zones) = 1
    /\ certainty_factor = 1
    /\ zones[1].min_distance <= zones[1].max_distance
    /\ ~zones[1].object_present /\ zones[1].in_zone_count = 1
    /\ calls = << >>

\* object_present of every zone, in index order
Presences(zs) == [i \in 1 .. Len(zs) |-> zs[i].object_present]

\* an operation with outcome r invoked no callback and changed no zone's
\* object_present
Quiet(r) == r.calls = << >> /\ Presences(r.zones) = Presences(zones)

\* C20: callbacks are invoked and object_present changes only inside a
\* fan-out tick: addZone, updateZone, deleteZone, setCertaintyFactor,
\* getZone, getZoneCount and getDistance never invoke on_enter or on_exit
\* and never change any zone's object_present; so a zone deleted while
\* Occupied never receives on_exit, and a zone added by addZone starts Empty
\* with both streaks 0 whatever the last sample was.
C20_OnlyTicksFire ==
    /\ calls # << >> => ret.kind \in {"void", "bool"}
    /\ \A min \in ZoneBounds, max \in ZoneBounds, e \in BOOLEAN, x \in BOOLEAN :
          LET r == addZone(min, max, e, x)
              z == r.zones[Len(r.zones)]
          IN  /\ r.calls = << >>
              /\ Len(r.zones) = Len(zones) + 1
              /\ \A j \in 1 .. Len(zones) :
                    r.zones[j].object_present = zones[j].object_present
              /\ ~z.object_present
              /\ z.in_zone_count = 0 /\ z.out_zone_count = 0
    /\ \A i \in Indices :
          /\ \A a \in UpdateArgs, b \in UpdateArgs : Quiet(updateZone(i, a, b))
          /\ Quiet(getZone(i))
          /\ LET r == deleteZone(i)
             IN  /\ r.calls = << >>
                 /\ \A j \in 1 .. Len(r.zones) :
                       r.zones[j].object_present =
                          zones[IF j <= i THEN j ELSE j + 1].object_present
    /\ \A n \in Certainties : Quiet(setCertaintyFactor(n))
    /\ \A s \in Readings : Quiet(getDistance(s))
    /\ Quiet(getZoneCount)

\* zone 0 is Occupied with on_exit set, and deleteZone(0) removes it without
\* a callback; zone 1 has the same window and is Empty with both streaks 0:
\* it was added after the samples that entered zone 0
C20_Witness ==
    /\ Len(zones) = 2
    /\ zones[1].object_present /\ zones[1].on_exit
    /\ zones[1].in_zone_count = 2
    /\ zones[2].min_distance = zones[1].min_distance
    /\ zones[2].max_distance = zones[1].max_distance
    /\ ~zones[2].object_present
    /\ zones[2].in_zone_count = 0 /\ zones[2].out_zone_count = 0
    /\ deleteZone(0).calls = << >>
    /\ deleteZone(0).zones = << zones[2] >>

(***************************************************************************)
(* Properties of the monitor against its ranging source, on SpecSensor.    *)
(***************************************************************************)
\* C11: getDistance() returns the ranging source's sample when one is ready
\* and 0 otherwise, and in both cases leaves last_update_time,
\* certainty_factor, the zone list and every zone's object_present and
\* streak counters unchanged and invokes no callback; the sample it returns
\* is taken from the ranging source, so that no tick at any later moment
\* finds it and evaluates a zone with it.
C11_ProbeFeedsNoZone ==
    /\ \A s \in Readings :
          LET r == getDistance(s)
          IN  /\ s \in Distances => r.ret = Distance(s)
              /\ s = NoData => r.ret = Distance(0)
              /\ r.last_update_time = last_update_time
              /\ r.certainty_factor = certainty_factor
              /\ r.zones = zones
              /\ r.calls = << >>
    /\ probed =>
          /\ sensor = NoData
          /\ \A T \in Clock :
                LET u == update(T, T, sensor)
                IN  u.zones = zones /\ u.calls = << >>

\* getDistance() has returned the sample 2, and the zone [1, 2], Empty with
\* certainty 1, which that sample would have entered, has not seen it
C11_Witness ==
    /\ probed
    /\ ret = Distance(2)
    /\ certainty_factor = 1
    /\ Len(zones) = 1
    /\ zones[1].min_distance = 1 /\ zones[1].max_distance = 2
    /\ ~zones[1].object_present /\ zones[1].in_zone_count = 0

\* some zone is Occupied
SomeOccupied == \E i \in 1 .. Len(zones) : zones[i].object_present

\* isObjectInZone() answers false whatever the index and the clock
AllAnswersFalse ==
    \A i \in Indices, T \in Clock :
        isObjectInZone(i, T, T, sensor).ret = Bool(FALSE)

\* C12, as stated: whenever the ranging source reports no fresh sample on
\* every tick from some point on (including from construction), from that
\* point on isObjectInZone(i) returns false for every index i and no
\* callback is invoked, under any sequence of monitor operations. A zone
\* that is Occupied at that point refutes it: it stays Occupied.
C12_SilentLooksEmpty ==
    silent # "no" =>
        /\ calls = << >>
        /\ ret # Bool(TRUE)
        /\ AllAnswersFalse

\* C12, amended: whenever the ranging source reports no fresh sample on
\* every tick from some point on at which every zone is Empty (including
\* from construction), from that point on isObjectInZone(i) returns false
\* for every index i and no callback is invoked, under any sequence of
\* monitor operations; if some zone is Occupied at that point, still no
\* callback is invoked from then on.
C12_SilentStaysAsItWas ==
    /\ silent # "no" => calls = << >>
    /\ silent = "empty" =>
          /\ ~SomeOccupied
          /\ ret # Bool(TRUE)
          /\ AllAnswersFalse

\* the source fell silent with every zone Empty, zone 0 one sample short of
\* entering; since then the zone list has grown to two and isObjectInZone()
\* has been asked and has answered false
C12_Witness ==
    /\ silent = "empty"
    /\ certainty_factor = 2
    /\ Len(zones) = 2
    /\ zones[1].in_zone_count = 1
    /\ last_update_time # 0
    /\ ret = Bool(FALSE)

(***************************************************************************)
(* The gate of performUpdate() and its time stamp, on SpecTiming.          *)
(***************************************************************************)
\* (T - last_update_time) mod 2^32, on the model's clock
Elapsed(T) ==
    IF T >= last_update_time
    THEN T - last_update_time
    ELSE T + ClockMod - last_update_time

\* performUpdate() entered at clock reading T1 returns at once
GateHolds(T1, r) ==
    /\ r.zones = zones
    /\ r.calls = << >>
    /\ r.last_update_time = last_update_time
    /\ ~TickReads(T1)

\* C17, as stated: performUpdate reads the clock value T and touches the
\* sensor only if (T - last_update_time) mod 2^32 >= update_interval_ms;
\* when the gate passes, last_update_time becomes exactly that T, also when
\* the sensor then reports no fresh sample. The code reads the clock a
\* second time for the stamp, and a millisecond may have passed.
C17_StampIsGateReading ==
    \A T1 \in Clock, s \in Readings : \A T2 \in After(T1) :
        LET r == performUpdate(T1, T2, s)
        IN  IF Elapsed(T1) >= update_interval_ms
            THEN r.last_update_time = T1
            ELSE GateHolds(T1, r)

\* C17, amended: performUpdate reads the clock value T and touches the
\* sensor only if (T - last_update_time) mod 2^32 >= update_interval_ms, so
\* the gate stays correct across wrap-around of the millisecond counter;
\* when the gate passes, last_update_time becomes the value of a second
\* clock reading, taken right after the first and equal to T or later, also
\* when the sensor then reports no fresh sample.
C17_StampIsSecondReading ==
    \A T1 \in Clock, s \in Readings : \A T2 \in After(T1) :
        LET r == performUpdate(T1, T2, s)
        IN  IF Elapsed(T1) >= update_interval_ms
            THEN r.last_update_time = T2
            ELSE GateHolds(T1, r)

\* three polls two milliseconds apart have read the sensor within a window
\* of five milliseconds, which is longer than the clock's period: the
\* counter has wrapped between two of them, and the last poll was a
\* millisecond ago
C17_Witness ==
    /\ update_interval_ms = 2
    /\ win_elapsed = 5
    /\ win_tick_reads = 3
    /\ now = (last_update_time + 1) % ClockMod

====
